---- MODULE Spec2Model ----
(***************************************************************************)
(* oxidizr: reversible substitution of system utilities by symlinks to     *)
(* Rust re-implementations.  The model covers the file-substitution engine *)
(* (System::replace_file_with_symlink / backup_file / restore_file /       *)
(* create_symlink), the compatibility gate, Experiment::enable/disable and  *)
(* the command line entry point (main).                                    *)
(*                                                                         *)
(* A path is the pair <<directory, file name>>; the filesystem maps every  *)
(* path of a finite universe to a node: nothing, a regular file (content,  *)
(* permission bits) or a symbolic link (destination path).                 *)
(***************************************************************************)
EXTENDS Integers, Sequences, FiniteSets, TLC

VARIABLES fs, installed, release, selected, log, last, prev, before, before2,
          beforeInst, beforeInst2, runs, uid, id, cli_args, search_path

vars == <<fs, installed, release, selected, log, last, prev, before, before2,
          beforeInst, beforeInst2, runs, uid, id, cli_args, search_path>>

(***************************************************************************)
(* Bounds                                                                  *)
(***************************************************************************)
\* number of executables each package ships in its bin directory
NumUtils == 2
\* number of operations (engine calls, or runs of the tool) in one behaviour
MaxRuns == 2
\* number of names given to --experiments
MaxNames == 2

(***************************************************************************)
(* Paths                                                                   *)
(***************************************************************************)
join(dir, name) == <<dir, name>>
parent(p) == p[1]
file_name(p) == p[2]

\* PathBuf as text: the directory, a separator and the name; the name alone
\* when the path has no directory
display(p) == IF parent(p) = "" THEN file_name(p) ELSE parent(p) \o "/" \o file_name(p)

\* every backup kept in one directory
backup_filename_OneDirectory(file) ==
    join("/var/backups", "." \o file_name(file) \o ".oxidizr.bak")

\* worker.rs: <dir>/<name>  ->  <dir>/.<name>.oxidizr.bak
backup_filename(file) == join(parent(file), "." \o file_name(file) \o ".oxidizr.bak")

NoPath == <<"", "">>

(***************************************************************************)
(* Filesystem nodes                                                        *)
(***************************************************************************)
None == [kind |-> "none", content |-> "", mode |-> 0, dest |-> NoPath]
File(c, m) == [kind |-> "file", content |-> c, mode |-> m, dest |-> NoPath]
Link(d) == [kind |-> "link", content |-> "", mode |-> 0, dest |-> d]

\* the permission bits without set-user-id / set-group-id / sticky (0o7000)
StripSpecial(m) == m % 512

\* Follow symbolic links from p (stat semantics).  st = "ok": path is the
\* final non-link node (possibly absent); st = "loop": too many levels of links.
RECURSIVE ResolveN(_, _, _)
ResolveN(f, p, n) ==
    IF n = 0 THEN [st |-> "loop", path |-> p]
    ELSE IF p \notin DOMAIN f THEN [st |-> "ok", path |-> NoPath]
    ELSE IF f[p].kind = "link" THEN ResolveN(f, f[p].dest, n - 1)
    ELSE [st |-> "ok", path |-> p]

Resolve(f, p) == ResolveN(f, p, Cardinality(DOMAIN f) + 1)

NodeAt(f, p) == IF p \in DOMAIN f THEN f[p] ELSE None

\* std::fs::exists: follows links; Ok(false) on a missing file or dangling
\* link, Err on any other error (here: a link loop).
fs_exists(f, p) ==
    LET r == Resolve(f, p) IN
    IF r.st = "loop" THEN "err"
    ELSE IF NodeAt(f, r.path).kind = "none" THEN "no" ELSE "yes"

\* Path::is_symlink: lstat, does not follow
is_symlink(f, p) == NodeAt(f, p).kind = "link"

(***************************************************************************)
(* Execution context of one handler: the filesystem and package state it   *)
(* works on, the recorded calls, whether an error has been returned (every *)
(* later step is then skipped, as with the ? operator), whether the        *)
(* process has exited (exit), and the failure                              *)
(* the environment injects into this run: fault = <<syscall, path>> makes  *)
(* that call fail, strip tells whether the kernel drops the special        *)
(* permission bits of a file that fs::copy writes.                         *)
(***************************************************************************)
NoFault == <<"none", NoPath>>

\* whether the kernel drops the special bits on write shows only when the
\* permission fix-up that follows the copy does not happen
StripChoices(fault) == IF fault[1] = "set_permissions" THEN BOOLEAN ELSE {TRUE}

Ctx(f, inst, fault, strip) ==
    [fs |-> f, installed |-> inst, ok |-> TRUE, panic |-> FALSE, ret |-> FALSE,
     exit |-> FALSE, log |-> <<>>, fault |-> fault, strip |-> strip]

Failed(s) == [s EXCEPT !.ok = FALSE]
Logged(s, ev) == IF s.ok THEN [s EXCEPT !.log = Append(@, ev)] ELSE s

\* std::fs::copy(from, to): both paths are followed; creates or truncates to.
\* A failed copy either leaves to untouched or leaves a truncated file.
fs_copy(s, from, to) ==
    IF ~s.ok THEN s
    ELSE LET src == Resolve(s.fs, from)
             dst == Resolve(s.fs, to)
         IN  IF \/ src.st # "ok" \/ dst.st # "ok"
                \/ NodeAt(s.fs, src.path).kind # "file"
                \/ dst.path \notin DOMAIN s.fs
                \/ s.fault = <<"copy", to>>
             THEN Failed(s)
             ELSE LET n == s.fs[src.path]
                      m == IF s.strip THEN StripSpecial(n.mode) ELSE n.mode
                  IN  IF s.fault = <<"copy_partial", to>>
                      THEN Failed([s EXCEPT !.fs[dst.path] = File("", m)])
                      ELSE [s EXCEPT !.fs[dst.path] = File(n.content, m)]

\* fs::set_permissions(path, fs::metadata(of).permissions()): both follow links
fs_copy_permissions(s, of, path) ==
    IF ~s.ok THEN s
    ELSE LET src == Resolve(s.fs, of)
             dst == Resolve(s.fs, path)
         IN  IF \/ src.st # "ok" \/ dst.st # "ok"
                \/ NodeAt(s.fs, src.path).kind = "none"
                \/ NodeAt(s.fs, dst.path).kind = "none"
                \/ s.fault = <<"set_permissions", path>>
             THEN Failed(s)
             ELSE [s EXCEPT !.fs[dst.path].mode = s.fs[src.path].mode]

\* std::fs::remove_file: unlink, does not follow links
fs_remove_file(s, p) ==
    IF ~s.ok THEN s
    ELSE IF NodeAt(s.fs, p).kind = "none" \/ s.fault = <<"remove_file", p>>
         THEN Failed(s)
         ELSE [s EXCEPT !.fs[p] = None]

\* std::os::unix::fs::symlink(source, target): EEXIST when anything,
\* a dangling link included, occupies target
fs_symlink(s, source, target) ==
    IF ~s.ok THEN s
    ELSE IF \/ target \notin DOMAIN s.fs
            \/ s.fs[target].kind # "none"
            \/ s.fault = <<"symlink", target>>
         THEN Failed(s)
         ELSE [s EXCEPT !.fs[target] = Link(source)]

\* std::fs::rename(from, to): atomically replaces whatever occupies to
fs_rename(s, from, to) ==
    IF ~s.ok THEN s
    ELSE IF NodeAt(s.fs, from).kind = "none" \/ s.fault = <<"rename", from>>
         THEN Failed(s)
         ELSE [s EXCEPT !.fs[to] = s.fs[from], !.fs[from] = None]

(***************************************************************************)
(* File-substitution engine (impl Worker for System)                       *)
(***************************************************************************)
remove_file_if_exists(s, file) ==
    IF ~s.ok THEN s
    ELSE LET e == fs_exists(s.fs, file) IN
         IF e = "err" THEN Failed(s)
         ELSE IF e = "yes" THEN fs_remove_file(s, file)
         ELSE s

create_symlink(s, source, target) ==
    fs_symlink(remove_file_if_exists(Logged(s, <<"symlink", source, target>>),
                                     target),
               source, target)

\* the copy alone, without re-applying the original's permission bits
backup_file_CopyOnly(s, file) ==
    fs_copy(Logged(s, <<"backup", file, NoPath>>), file, backup_filename(file))

backup_file(s, file) ==
    fs_copy_permissions(
        fs_copy(Logged(s, <<"backup", file, NoPath>>), file, backup_filename(file)),
        file, backup_filename(file))

\* goes on to delete the original when the backup has failed
replace_file_with_symlink_IgnoreBackupError(s, source, target) ==
    IF ~s.ok THEN s
    ELSE LET s0 == Logged(s, <<"replace", source, target>>)
             e == fs_exists(s.fs, target)
         IN  IF e = "err" THEN Failed(s0)
             ELSE IF e = "yes"
                  THEN IF is_symlink(s.fs, target) THEN s0
                       ELSE create_symlink(
                                fs_remove_file(
                                    [backup_file(s0, target) EXCEPT !.ok = TRUE],
                                    target),
                                source, target)
                  ELSE create_symlink(s0, source, target)

\* backs up and replaces whatever exists at the target, a symlink included
replace_file_with_symlink_NoSkip(s, source, target) ==
    IF ~s.ok THEN s
    ELSE LET s0 == Logged(s, <<"replace", source, target>>)
             e == fs_exists(s.fs, target)
         IN  IF e = "err" THEN Failed(s0)
             ELSE IF e = "yes"
                  THEN create_symlink(
                           fs_remove_file(backup_file(s0, target), target),
                           source, target)
                  ELSE create_symlink(s0, source, target)

replace_file_with_symlink(s, source, target) ==
    IF ~s.ok THEN s
    ELSE LET s0 == Logged(s, <<"replace", source, target>>)
             e == fs_exists(s.fs, target)
         IN  IF e = "err" THEN Failed(s0)
             ELSE IF e = "yes"
                  THEN IF is_symlink(s.fs, target) THEN s0
                       ELSE create_symlink(
                                fs_remove_file(backup_file(s0, target), target),
                                source, target)
                  ELSE create_symlink(s0, source, target)

\* when a backup exists, deletes what occupies the target, then renames
restore_file_DeleteThenRename(s, file) ==
    IF ~s.ok THEN s
    ELSE LET s0 == Logged(s, <<"restore", file, NoPath>>)
             e == fs_exists(s.fs, backup_filename(file))
         IN  IF e = "err" THEN Failed(s0)
             ELSE IF e = "yes"
                  THEN fs_rename(
                           IF NodeAt(s.fs, file).kind = "none" THEN s0
                           ELSE fs_remove_file(s0, file),
                           backup_filename(file), file)
                  ELSE s0

\* removes whatever occupies the target before looking for the backup
restore_file_RemoveFirst(s, file) ==
    IF ~s.ok THEN s
    ELSE LET s0 == remove_file_if_exists(Logged(s, <<"restore", file, NoPath>>),
                                         file)
             e == fs_exists(s.fs, backup_filename(file))
         IN  IF e = "err" THEN Failed(s0)
             ELSE IF e = "yes" THEN fs_rename(s0, backup_filename(file), file)
             ELSE s0

\* consults the target as well: acts only when the target is a symlink
restore_file_OnlyOverSymlink(s, file) ==
    IF ~s.ok THEN s
    ELSE LET s0 == Logged(s, <<"restore", file, NoPath>>)
             e == fs_exists(s.fs, backup_filename(file))
         IN  IF e = "err" THEN Failed(s0)
             ELSE IF e = "yes" /\ is_symlink(s.fs, file)
                  THEN fs_rename(s0, backup_filename(file), file)
             ELSE s0

restore_file(s, file) ==
    IF ~s.ok THEN s
    ELSE LET s0 == Logged(s, <<"restore", file, NoPath>>)
             e == fs_exists(s.fs, backup_filename(file))
         IN  IF e = "err" THEN Failed(s0)
             ELSE IF e = "yes" THEN fs_rename(s0, backup_filename(file), file)
             ELSE s0

(***************************************************************************)
(* Path universe                                                           *)
(***************************************************************************)
UsrBin == "/usr/bin"
UsrSbin == "/usr/sbin"
CargoBin == "/usr/lib/cargo/bin"

\* the files of the sudo-rs experiment
SudoNames == {"su", "sudo", "visudo"}

\* directories of $PATH, in search order
SearchPath == <<UsrSbin, UsrBin>>

UnifiedCoreutils == join(UsrBin, "coreutils")
UnifiedDiffutils == join("/usr/lib/cargo/bin/diffutils", "diffutils")
Elsewhere == join("/opt", "other")

(***************************************************************************)
(* Release strings are byte strings, compared as Rust compares String:     *)
(* lexicographically, byte by byte.                                        *)
(***************************************************************************)
Rel(a, b, c, d) == <<48 + a, 48 + b, 46, 48 + c, 48 + d>>   \* "ab.cd"

RECURSIVE StrLe(_, _)
StrLe(x, y) ==
    IF x = <<>> THEN TRUE
    ELSE IF y = <<>> THEN FALSE
    ELSE IF Head(x) < Head(y) THEN TRUE
    ELSE IF Head(x) > Head(y) THEN FALSE
    ELSE StrLe(Tail(x), Tail(y))

(***************************************************************************)
(* Experiment registry (all_experiments).  UutilsExperiment keeps one      *)
(* minimum release (first_supported_release), the first release of the     *)
(* list the registry names; SudoRsExperiment keeps a set of releases.      *)
(* A record carries both fields; each kind reads its own.                  *)
(***************************************************************************)
SudoRsReleases == {Rel(2, 4, 0, 4), Rel(2, 4, 1, 0), Rel(2, 5, 0, 4)}

Coreutils ==
    [name |-> "coreutils", kind |-> "uutils", package |-> "rust-coreutils",
     first_supported_release |-> Rel(2, 4, 0, 4), supported_releases |-> {},
     unified_binary |-> <<UnifiedCoreutils>>,
     bin_directory |-> "/usr/lib/cargo/bin/coreutils"]

Diffutils ==
    [name |-> "diffutils", kind |-> "uutils", package |-> "rust-diffutils",
     first_supported_release |-> Rel(2, 4, 1, 0), supported_releases |-> {},
     unified_binary |-> <<UnifiedDiffutils>>,
     bin_directory |-> "/usr/lib/cargo/bin/diffutils"]

Findutils ==
    [name |-> "findutils", kind |-> "uutils", package |-> "rust-findutils",
     first_supported_release |-> Rel(2, 4, 0, 4), supported_releases |-> {},
     unified_binary |-> <<>>,
     bin_directory |-> "/usr/lib/cargo/bin/findutils"]

SudoRs ==
    [name |-> "sudo-rs", kind |-> "sudors", package |-> "sudo-rs",
     first_supported_release |-> <<>>, supported_releases |-> SudoRsReleases,
     unified_binary |-> <<>>,
     bin_directory |-> CargoBin]

all_experiments == <<Coreutils, Diffutils, Findutils, SudoRs>>

Experiments == {all_experiments[i] : i \in DOMAIN all_experiments}

(***************************************************************************)
(* Environment: what the packages ship, and what the commands do           *)
(***************************************************************************)
\* executables each package ships in its bin directory, by name
BinNames(e) ==
    IF e.name = "coreutils" THEN SubSeq(<<"date", "sort", "ls">>, 1, NumUtils)
    ELSE IF e.name = "diffutils"
    THEN SubSeq(<<"diffutils", "diff", "cmp">>, 1, NumUtils)
    ELSE IF e.name = "findutils"
    THEN SubSeq(<<"find", "xargs", "locate">>, 1, NumUtils)
    ELSE <<>>

PkgNames(e) ==
    IF e.kind = "sudors" THEN SudoNames
    ELSE {BinNames(e)[i] : i \in DOMAIN BinNames(e)}

\* a file the package ships next to the ones the experiment substitutes
PkgExtra(e) ==
    IF e.kind = "sudors" THEN {join(e.bin_directory, "sudoedit")} ELSE {}

\* files the package installs: its bin directory and its multi-call binary
PkgFiles(e) ==
    {join(e.bin_directory, n) : n \in PkgNames(e)}
        \cup {e.unified_binary[i] : i \in DOMAIN e.unified_binary}
        \cup PkgExtra(e)

\* paths the experiment may write: /usr/bin/<name> (and, for names resolved on
\* the search path, the other search directories) with their backups
TargetsOf(e) ==
    IF e.kind = "sudors"
    THEN {join(SearchPath[i], n) : i \in DOMAIN SearchPath, n \in PkgNames(e)}
    ELSE {join(UsrBin, n) : n \in PkgNames(e)}

PathsOf(e) ==
    PkgFiles(e) \cup TargetsOf(e) \cup {backup_filename(t) : t \in TargetsOf(e)}
        \cup (IF e.kind = "sudors"
              THEN {backup_filename(p) : p \in PkgFiles(e)} ELSE {})
        \cup {Elsewhere}

\* Command::build(command, args): the program and its arguments joined by " "
RECURSIVE JoinArgs(_)
JoinArgs(args) ==
    IF args = <<>> THEN ""
    ELSE IF Len(args) = 1 THEN args[1]
    ELSE args[1] \o " " \o JoinArgs(Tail(args))

build(command, args) == <<command, JoinArgs(args)>>

PackageNamed(pkg) == CHOOSE e \in Experiments : e.package = pkg

\* what a command that exits with status 0 has done
CommandEffect(s, cmd, pkg) ==
    IF cmd = build("apt-get", <<"install", "-y", pkg>>)
    THEN [s EXCEPT !.installed = @ \cup {pkg},
                   !.fs = [p \in DOMAIN s.fs |->
                              IF p \in PkgFiles(PackageNamed(pkg))
                              THEN File("rust", 493) ELSE s.fs[p]]]
    ELSE IF cmd = build("apt-get", <<"remove", "-y", pkg>>)
    THEN [s EXCEPT !.installed = @ \ {pkg},
                   !.fs = [p \in DOMAIN s.fs |->
                              IF p \in PkgFiles(PackageNamed(pkg))
                              THEN None ELSE s.fs[p]]]
    ELSE s

\* Worker::run: Err when the process cannot start or exits non-zero.
\* dpkg-query -s exits non-zero for a package that is not installed.
run(s, cmd, pkg) ==
    IF ~s.ok THEN s
    ELSE LET s0 == Logged(s, <<"run", cmd, NoPath>>) IN
         IF \/ s.fault = <<"run", cmd>>
            \/ (cmd = build("dpkg-query", <<"-s", pkg>>) /\ pkg \notin s.installed)
         THEN Failed(s0)
         ELSE CommandEffect(s0, cmd, pkg)

install_package(s, package) ==
    run(s, build("apt-get", <<"install", "-y", package>>), package)

remove_package(s, package) ==
    run(s, build("apt-get", <<"remove", "-y", package>>), package)

\* the error of the query is returned to the caller
check_installed_Propagates(s, package) ==
    IF ~s.ok THEN s
    ELSE LET r == run(s, build("dpkg-query", <<"-s", package>>), package) IN
         [r EXCEPT !.ret = r.ok]

\* Worker::check_installed: Ok(true) when dpkg-query succeeds, Ok(false) when
\* it fails; the result is in ret and the context stays ok.
check_installed(s, package) ==
    IF ~s.ok THEN s
    ELSE LET r == run(s, build("dpkg-query", <<"-s", package>>), package) IN
         [r EXCEPT !.ok = TRUE, !.ret = r.ok]

\* Worker::distribution as SudoRsExperiment uses it: two lsb_release runs
distribution(s) ==
    run(run(s, build("lsb_release", <<"-is">>), ""),
        build("lsb_release", <<"-rs">>), "")

\* System::list_files: Err unless the directory exists; the entries in the
\* order read_dir yields them (order: some enumeration of the names)
DirExists(f, dir) == \E p \in DOMAIN f : parent(p) = dir /\ f[p].kind # "none"

list_files(f, dir, order) ==
    LET Present(n) == NodeAt(f, join(dir, n)).kind # "none"
        names == SelectSeq(order, Present)
    IN  [n \in DOMAIN names |-> join(dir, names[n])]

\* which::which: the first directory of the search path holding the name as
\* an existing file (links followed)
RECURSIVE whichFrom(_, _, _)
whichFrom(f, binary_name, i) ==
    IF i > Len(search_path) THEN [found |-> FALSE, path |-> NoPath]
    ELSE LET p == join(search_path[i], binary_name)
             r == Resolve(f, p)
         IN  IF r.st = "ok" /\ NodeAt(f, r.path).kind = "file"
             THEN [found |-> TRUE, path |-> p]
             ELSE whichFrom(f, binary_name, i + 1)

which(f, binary_name) == whichFrom(f, binary_name, 1)


(***************************************************************************)
(* Compatibility gate                                                      *)
(***************************************************************************)
\* the minimum release itself excluded
uutils_check_compatible_Exclusive(e, rel) ==
    StrLe(e.first_supported_release, rel) /\ rel # e.first_supported_release

\* UutilsExperiment::check_compatible: release >= first_supported_release
uutils_check_compatible(e, rel) == StrLe(e.first_supported_release, rel)

\* a floor at the oldest supported release instead of membership
sudors_check_compatible_Floor(s, e, rel) ==
    IF ~s.ok THEN s
    ELSE LET d == distribution(s) IN
         IF ~d.ok THEN [d EXCEPT !.panic = TRUE]
         ELSE [d EXCEPT !.ret = \E m \in e.supported_releases : StrLe(m, rel)]

\* SudoRsExperiment::check_compatible: membership; the distribution query is
\* unwrapped with expect, so its failure is a panic
sudors_check_compatible(s, e, rel) ==
    IF ~s.ok THEN s
    ELSE LET d == distribution(s) IN
         IF ~d.ok THEN [d EXCEPT !.panic = TRUE]
         ELSE [d EXCEPT !.ret = rel \in e.supported_releases]

\* Experiment::check_compatible
check_compatible(s, e, rel) ==
    IF ~s.ok THEN s
    ELSE IF e.kind = "uutils"
         THEN [s EXCEPT !.ret = uutils_check_compatible(e, rel)]
         ELSE sudors_check_compatible(s, e, rel)

(***************************************************************************)
(* UutilsExperiment                                                        *)
(***************************************************************************)
\* always the file of the bin directory, the unified binary ignored
uutils_source_PerFile(e, f) == f

uutils_source(e, f) ==
    IF e.unified_binary # <<>> THEN e.unified_binary[1] ELSE f

RECURSIVE uutils_replace_files(_, _, _)
uutils_replace_files(s, e, files) ==
    IF files = <<>> \/ ~s.ok THEN s
    ELSE uutils_replace_files(
             replace_file_with_symlink(s, uutils_source(e, Head(files)),
                                       join(UsrBin, file_name(Head(files)))),
             e, Tail(files))

RECURSIVE uutils_restore_files(_, _)
uutils_restore_files(s, files) ==
    IF files = <<>> \/ ~s.ok THEN s
    ELSE uutils_restore_files(
             restore_file(s, join(UsrBin, file_name(Head(files)))),
             Tail(files))

\* self.system.list_files(self.bin_directory.clone())?
uutils_list_files(s, e) ==
    IF ~s.ok THEN s
    ELSE LET s0 == Logged(s, <<"list_files", join(e.bin_directory, ""), NoPath>>)
         IN  IF \/ ~DirExists(s.fs, e.bin_directory)
                \/ s.fault = <<"read_dir", join(e.bin_directory, "")>>
             THEN Failed(s0) ELSE s0

\* restores every target from a backup left behind before replacing it
uutils_enable_RestoreFirst(s, e, rel, order) ==
    IF ~s.ok THEN s
    ELSE IF ~uutils_check_compatible(e, rel) THEN s
    ELSE LET s1 == uutils_list_files(install_package(s, e.package), e)
             files == list_files(s1.fs, e.bin_directory, order)
         IN  uutils_replace_files(uutils_restore_files(s1, files), e, files)

uutils_enable(s, e, rel, order) ==
    IF ~s.ok THEN s
    ELSE IF ~uutils_check_compatible(e, rel) THEN s
    ELSE LET s1 == uutils_list_files(install_package(s, e.package), e)
         IN  uutils_replace_files(s1, e,
                                  list_files(s1.fs, e.bin_directory, order))

\* removes the package first, then restores the files it had listed
uutils_disable_RemoveFirst(s, e, order) ==
    IF ~s.ok THEN s
    ELSE LET c == check_installed(s, e.package) IN
         IF ~c.ret THEN c
         ELSE LET s1 == uutils_list_files(c, e) IN
              uutils_restore_files(
                  remove_package(s1, e.package),
                  list_files(s1.fs, e.bin_directory, order))

uutils_disable(s, e, order) ==
    IF ~s.ok THEN s
    ELSE LET c == check_installed(s, e.package) IN
         IF ~c.ret THEN c
         ELSE LET s1 == uutils_list_files(c, e) IN
              remove_package(
                  uutils_restore_files(
                      s1, list_files(s1.fs, e.bin_directory, order)),
                  e.package)

(***************************************************************************)
(* SudoRsExperiment                                                        *)
(***************************************************************************)
sudors_files == <<join(CargoBin, "su"), join(CargoBin, "sudo"),
                  join(CargoBin, "visudo")>>

\* always /usr/bin/<name>, the search path not consulted
sudors_existing_UsrBin(f, filename) == join(UsrBin, filename)

sudors_existing(f, filename) ==
    LET w == which(f, filename) IN
    IF w.found THEN w.path ELSE join(UsrBin, filename)

RECURSIVE sudors_replace_files(_, _)
sudors_replace_files(s, files) ==
    IF files = <<>> \/ ~s.ok THEN s
    ELSE sudors_replace_files(
             replace_file_with_symlink(
                 s, Head(files), sudors_existing(s.fs, file_name(Head(files)))),
             Tail(files))

RECURSIVE sudors_restore_files(_, _)
sudors_restore_files(s, files) ==
    IF files = <<>> \/ ~s.ok THEN s
    ELSE sudors_restore_files(
             restore_file(s, sudors_existing(s.fs, file_name(Head(files)))),
             Tail(files))

sudors_enable(s, e) ==
    sudors_replace_files(install_package(s, e.package), sudors_files)

sudors_disable(s, e) ==
    remove_package(sudors_restore_files(s, sudors_files), e.package)

(***************************************************************************)
(* Experiment (dispatch over the two kinds)                                *)
(***************************************************************************)
Experiment_dispatch_enable(s, e, rel, order) ==
    IF e.kind = "uutils" THEN uutils_enable(s, e, rel, order)
    ELSE sudors_enable(s, e)

\* enables without consulting the compatibility gate
Experiment_enable_NoGate(s, e, no_compatibility_check, rel, order) ==
    Experiment_dispatch_enable(s, e, rel, order)

Experiment_enable(s, e, no_compatibility_check, rel, order) ==
    IF no_compatibility_check
    THEN Experiment_dispatch_enable(s, e, rel, order)
    ELSE LET c == check_compatible(s, e, rel) IN
         IF ~c.ok \/ ~c.ret THEN c
         ELSE Experiment_dispatch_enable(c, e, rel, order)

\* disables without the installed-check
Experiment_disable_NoInstalledCheck(s, e, order) ==
    IF e.kind = "uutils" THEN uutils_disable(s, e, order)
    ELSE sudors_disable(s, e)

\* skips on a host that fails the compatibility gate, as enable does
Experiment_disable_Gated(s, e, order) ==
    LET c == check_installed(s, e.package)
        g == check_compatible(c, e, release)
    IN  IF ~c.ret THEN c
        ELSE IF ~g.ok \/ ~g.ret THEN [g EXCEPT !.ok = TRUE]
        ELSE IF e.kind = "uutils" THEN uutils_disable(c, e, order)
        ELSE sudors_disable(c, e)

\* asks for the removal of the package although it is not installed
Experiment_disable_RemoveAnyway(s, e, order) ==
    LET c == check_installed(s, e.package) IN
    IF ~c.ret THEN remove_package(c, e.package)
    ELSE IF e.kind = "uutils" THEN uutils_disable(c, e, order)
    ELSE sudors_disable(c, e)

Experiment_disable(s, e, order) ==
    LET c == check_installed(s, e.package) IN
    IF ~c.ret THEN c
    ELSE IF e.kind = "uutils" THEN uutils_disable(c, e, order)
    ELSE sudors_disable(c, e)

(***************************************************************************)
(* Command line entry point (main.rs)                                      *)
(***************************************************************************)
default_experiments == <<"coreutils", "sudo-rs">>

\* the experiments named, in the order of the arguments
selected_experiments_ArgumentOrder(all, selected_names) ==
    IF all THEN all_experiments
    ELSE LET filter == IF Len(selected_names) = 0 THEN default_experiments
                       ELSE selected_names
             known(n) == \E e \in Experiments : e.name = n
             names == SelectSeq(filter, known)
         IN  [i \in DOMAIN names |->
                 CHOOSE e \in Experiments : e.name = names[i]]

\* selected_experiments(all, selected): the registry itself with --all, else
\* the experiments of the registry whose name the filter contains
selected_experiments(all, selected_names) ==
    IF all THEN all_experiments
    ELSE LET filter == IF Len(selected_names) = 0 THEN default_experiments
                       ELSE selected_names
             contains(e) == \E i \in DOMAIN filter : filter[i] = e.name
         IN  SelectSeq(all_experiments, contains)

\* a prompt that cannot be shown counts as consent
confirm_or_exit_ErrorIsYes(s, yes, answer) ==
    IF ~s.ok \/ yes THEN s
    ELSE LET s0 == Logged(s, <<"prompt", NoPath, NoPath>>) IN
         IF answer \in {"yes", "err"} THEN s0
         ELSE [Failed(s0) EXCEPT !.exit = TRUE]

\* confirm_or_exit: with --yes no prompt; otherwise the prompt, and exit(1)
\* unless the answer is yes
confirm_or_exit(s, yes, answer) ==
    IF ~s.ok \/ yes THEN s
    ELSE LET s0 == Logged(s, <<"prompt", NoPath, NoPath>>) IN
         IF answer = "yes" THEN s0 ELSE [Failed(s0) EXCEPT !.exit = TRUE]

\* the package lists are left as they are
update_package_lists_Skipped(s) == s

update_package_lists(s) == run(s, build("apt-get", <<"update">>), "")

\* read_dir order number k of the bin directory of e
Rotation(e, k) ==
    [i \in DOMAIN BinNames(e) |-> BinNames(e)[((i + k) % Len(BinNames(e))) + 1]]

\* for e in experiments.iter() { e.enable(no_compatibility_check)?; }
RECURSIVE enable_each(_, _, _, _, _)
enable_each(s, experiments, no_compatibility_check, rel, k) ==
    IF experiments = <<>> \/ ~s.ok THEN s
    ELSE enable_each(
             Experiment_enable(s, Head(experiments), no_compatibility_check,
                               rel, Rotation(Head(experiments), k)),
             Tail(experiments), no_compatibility_check, rel, k)

\* for e in experiments.iter() { e.disable()?; }
RECURSIVE disable_each(_, _, _)
disable_each(s, experiments, k) ==
    IF experiments = <<>> \/ ~s.ok THEN s
    ELSE disable_each(
             Experiment_disable(s, Head(experiments),
                                Rotation(Head(experiments), k)),
             Tail(experiments), k)

\* the error of the first experiment is dropped and the others are enabled
main_enable_KeepGoing(s, experiments, yes, no_compatibility_check, answer, rel, k) ==
    LET s1 == update_package_lists(confirm_or_exit(s, yes, answer)) IN
    IF experiments = <<>> THEN s1
    ELSE LET first == enable_each(s1, <<Head(experiments)>>,
                                  no_compatibility_check, rel, k)
         IN  enable_each([first EXCEPT !.ok = s1.ok], Tail(experiments),
                         no_compatibility_check, rel, k)

main_enable(s, experiments, yes, no_compatibility_check, answer, rel, k) ==
    enable_each(update_package_lists(confirm_or_exit(s, yes, answer)),
                experiments, no_compatibility_check, rel, k)

main_disable(s, experiments, yes, answer, k) ==
    disable_each(confirm_or_exit(s, yes, answer), experiments, k)

\* any user may run the tool
main_NoRootCheck(s, user, distributor, a, cmd, answer, rel, k) ==
    LET d == distribution(s) IN
    IF ~d.ok THEN d
    ELSE IF ~a.no_compatibility_check /\ distributor # "Ubuntu"
    THEN Failed(d)
    ELSE LET w == IF distributor # "Ubuntu"
                  THEN Logged(d, <<"warn", NoPath, NoPath>>) ELSE d
             sel == selected_experiments(a.all, a.experiments)
         IN  IF cmd = "enable"
             THEN main_enable(w, sel, a.yes, a.no_compatibility_check,
                              answer, rel, k)
             ELSE main_disable(w, sel, a.yes, answer, k)

\* main: root only; Ubuntu only unless the check is bypassed (then a
\* warning); then the subcommand on the selected experiments
main(s, user, distributor, a, cmd, answer, rel, k) ==
    IF user # 0 THEN Failed(s)
    ELSE LET d == distribution(s) IN
         IF ~d.ok THEN d
         ELSE IF ~a.no_compatibility_check /\ distributor # "Ubuntu"
         THEN Failed(d)
         ELSE LET w == IF distributor # "Ubuntu"
                       THEN Logged(d, <<"warn", NoPath, NoPath>>) ELSE d
                  sel == selected_experiments(a.all, a.experiments)
              IN  IF cmd = "enable"
                  THEN main_enable(w, sel, a.yes, a.no_compatibility_check,
                                   answer, rel, k)
                  ELSE main_disable(w, sel, a.yes, answer, k)

(***************************************************************************)
(* History kept for the properties: the last two operations (last, prev),  *)
(* the filesystem before each of them (before, before2) and the installed  *)
(* packages before each of them (beforeInst, beforeInst2)                  *)
(***************************************************************************)
NoOp == [op |-> "none", exp |-> "", src |-> NoPath, tgt |-> NoPath,
         ncc |-> FALSE, ok |-> TRUE, panic |-> FALSE, strip |-> FALSE,
         fault |-> NoFault, gate |-> "", acted |-> FALSE,
         cmd |-> "", answer |-> "", exit |-> FALSE, clean |-> TRUE,
         targets |-> {}]

\* the options of the command line (struct Args), none given
NoArgs == [yes |-> FALSE, all |-> FALSE, no_compatibility_check |-> FALSE,
           experiments |-> <<>>]

\* the handler went past its skip condition: it called a file operation or
\* the package manager
Acted(l) == \E i \in DOMAIN l : l[i][1] # "run" \/ l[i][2][1] = "apt-get"

\* the target paths a run passed to Replace, and those it passed to Restore
ReplaceTargets(l) == {l[i][3] : i \in {j \in DOMAIN l : l[j][1] = "replace"}}
RestoreTargets(l) == {l[i][2] : i \in {j \in DOMAIN l : l[j][1] = "restore"}}

(***************************************************************************)
(* Engine specification: Replace and Restore applied to one target with    *)
(* any source, from any initial content of target, backup and source.      *)
(***************************************************************************)
EngineTarget == join(UsrBin, "date")
EngineSources == {UnifiedCoreutils, Elsewhere}

EnginePaths == {EngineTarget, backup_filename(EngineTarget)} \cup EngineSources

Modes == {493, 2541}    \* 0o755 and 0o4755 (set-user-id)

EngineTargetNodes ==
    {None} \cup {File("orig", m) : m \in Modes}
           \cup {Link(d) : d \in EngineSources}

EngineFaults ==
    {NoFault}
        \cup {<<k, backup_filename(EngineTarget)>> :
                 k \in {"copy", "copy_partial", "set_permissions", "rename"}}
        \cup {<<k, EngineTarget>> : k \in {"remove_file", "symlink"}}

InitEngine ==
    /\ \E t \in EngineTargetNodes, b \in {None, File("stale", 493)},
          u \in {None, File("rust", 493)}, o \in {None, File("other", 493)} :
          fs = [p \in EnginePaths |->
                   IF p = EngineTarget THEN t
                   ELSE IF p = backup_filename(EngineTarget) THEN b
                   ELSE IF p = UnifiedCoreutils THEN u ELSE o]
    /\ installed = {}
    /\ release = <<>>
    /\ selected = <<>>
    /\ log = <<>>
    /\ last = NoOp
    /\ prev = NoOp
    /\ before = fs
    /\ before2 = fs
    /\ beforeInst = installed
    /\ beforeInst2 = installed
    /\ runs = 0
    /\ uid = 0
    /\ id = "Ubuntu"
    /\ cli_args = NoArgs
    /\ search_path = SearchPath

Replace(source, target, fault, strip) ==
    LET s == replace_file_with_symlink(Ctx(fs, installed, fault, strip),
                                       source, target)
    IN  /\ runs < MaxRuns
        /\ runs' = runs + 1
        /\ fs' = s.fs
        /\ log' = s.log
        /\ last' = [NoOp EXCEPT !.op = "replace", !.src = source,
                                !.tgt = target, !.ok = s.ok, !.strip = strip,
                                !.fault = fault]
        /\ prev' = last
        /\ before' = fs
        /\ before2' = before
        /\ UNCHANGED <<installed, release, selected, beforeInst, beforeInst2, uid, id,
                       cli_args,
                       search_path>>

Restore(target, fault) ==
    LET s == restore_file(Ctx(fs, installed, fault, FALSE), target)
    IN  /\ runs < MaxRuns
        /\ runs' = runs + 1
        /\ fs' = s.fs
        /\ log' = s.log
        /\ last' = [NoOp EXCEPT !.op = "restore", !.tgt = target, !.ok = s.ok,
                                !.fault = fault]
        /\ prev' = last
        /\ before' = fs
        /\ before2' = before
        /\ UNCHANGED <<installed, release, selected, beforeInst, beforeInst2, uid, id,
                       cli_args,
                       search_path>>

CreateSymlink(source, target, fault) ==
    LET s == create_symlink(Ctx(fs, installed, fault, TRUE), source, target)
    IN  /\ runs < MaxRuns
        /\ runs' = runs + 1
        /\ fs' = s.fs
        /\ log' = s.log
        /\ last' = [NoOp EXCEPT !.op = "create_symlink", !.src = source,
                                !.tgt = target, !.ok = s.ok, !.fault = fault]
        /\ prev' = last
        /\ before' = fs
        /\ before2' = before
        /\ UNCHANGED <<installed, release, selected, beforeInst, beforeInst2, uid, id,
                       cli_args,
                       search_path>>

NextEngine ==
    \/ \E source \in EngineSources, fault \in EngineFaults :
           \E strip \in StripChoices(fault) :
               Replace(source, EngineTarget, fault, strip)
    \/ \E fault \in EngineFaults : Restore(EngineTarget, fault)
    \/ \E source \in EngineSources,
          fault \in {NoFault, <<"remove_file", EngineTarget>>,
                     <<"symlink", EngineTarget>>} :
           CreateSymlink(source, EngineTarget, fault)

SpecEngine == InitEngine /\ [][NextEngine]_vars

(***************************************************************************)
(* Properties of the engine                                                *)
(***************************************************************************)
BackupOf(f, t) == NodeAt(f, backup_filename(t))

\* C1: Replace(source, T) followed by Restore(T), T being a regular file with
\* content C and permission bits M before the Replace, leaves T a regular
\* file with content C and bits M (set-user-id included) and no backup file.
C1_ReplaceRestoreRoundTrip ==
    (/\ prev.op = "replace" /\ prev.ok
     /\ last.op = "restore" /\ last.ok /\ last.tgt = prev.tgt
     /\ before2[prev.tgt].kind = "file")
    => /\ fs[last.tgt] = before2[last.tgt]
       /\ BackupOf(fs, last.tgt).kind = "none"

\* a set-user-id original, copied by a kernel that drops the bit, has made
\* the round trip
C1_Witness ==
    /\ prev.op = "replace" /\ prev.ok /\ prev.strip
    /\ last.op = "restore" /\ last.ok /\ last.tgt = prev.tgt
    /\ before2[prev.tgt] = File("orig", 2541)
    /\ before[prev.tgt].kind = "link"
    /\ fs[last.tgt] = File("orig", 2541)

\* C2: Replace(source, T) twice: the second call succeeds and leaves the
\* disk exactly as the first call left it.
C2_ReplaceTwiceIsReplaceOnce ==
    (/\ prev.op = "replace" /\ prev.ok
     /\ last.op = "replace" /\ last.src = prev.src /\ last.tgt = prev.tgt
     /\ last.fault = NoFault)
    => (last.ok /\ fs = before)

\* C3: Restore(T) without a backup file returns success and changes nothing.
C3_RestoreWithoutBackupIsNoOp ==
    (last.op = "restore" /\ BackupOf(before, last.tgt).kind = "none")
    => (last.ok /\ fs = before)

\* Restore has run on a target that is a symlink and on one that is a
\* regular file, with no backup present
C3_Witness ==
    /\ last.op = "restore" /\ last.ok
    /\ BackupOf(before, last.tgt).kind = "none"
    /\ before[last.tgt].kind = "link"
    /\ fs[last.tgt].kind = "link"

\* C21: after Replace of a regular-file target, whether it succeeded or failed
\* at any of its steps (backup copy, permission fix-up, deletion of the
\* original, creation of the symlink), the original is in full, content and
\* permissions, at the target path or at the backup path: the target has
\* lost it only if the backup holds it.
C21_OriginalNeverLost ==
    (last.op = "replace" /\ before[last.tgt].kind = "file")
    => /\ \/ fs[last.tgt] = before[last.tgt]
          \/ BackupOf(fs, last.tgt) = before[last.tgt]
       /\ fs[last.tgt].kind # "file"
          => /\ BackupOf(fs, last.tgt).content = before[last.tgt].content
             /\ BackupOf(fs, last.tgt).mode = before[last.tgt].mode

\* Replace failed at the symlink, after the set-user-id original was deleted
C21_Witness ==
    /\ last.op = "replace" /\ ~last.ok
    /\ last.fault = <<"symlink", last.tgt>>
    /\ before[last.tgt] = File("orig", 2541)
    /\ fs[last.tgt].kind = "none"
    /\ BackupOf(fs, last.tgt) = File("orig", 2541)

\* C22: Restore(T) with a backup present ends, when it succeeds, with T
\* holding the backup's content and permissions and no backup file; when it
\* fails nothing has changed: it never leaves T absent with the backup still
\* waiting to be renamed.
C22_RestoreIsAtomic ==
    (last.op = "restore" /\ BackupOf(before, last.tgt).kind # "none")
    => /\ last.ok
          => /\ fs[last.tgt] = BackupOf(before, last.tgt)
             /\ BackupOf(fs, last.tgt).kind = "none"
       /\ ~last.ok => fs = before
       /\ before[last.tgt].kind # "none"
          => ~(fs[last.tgt].kind = "none" /\ BackupOf(fs, last.tgt).kind # "none")

\* Restore put a set-user-id original back over the symlink, and a Restore
\* whose rename failed left the symlink and the backup as they were
C22_Witness ==
    /\ prev.op = "restore" /\ ~prev.ok
    /\ prev.fault = <<"rename", <<last.tgt[1], "." \o last.tgt[2] \o ".oxidizr.bak">>>>
    /\ before2[last.tgt].kind = "link" /\ before = before2
    /\ last.op = "restore" /\ last.ok /\ last.tgt = prev.tgt
    /\ BackupOf(before, last.tgt).kind = "file"
    /\ fs[last.tgt] = BackupOf(before, last.tgt)
    /\ BackupOf(fs, last.tgt).kind = "none"

\* C23: Replace on a target that is a symlink, wherever the link points (the
\* source, another path, a path that does not exist), returns success and
\* changes nothing: same link, no backup created.
C23_ReplaceOnSymlinkIsNoOp ==
    (last.op = "replace" /\ before[last.tgt].kind = "link"
        /\ last.fault = NoFault)
    => (last.ok /\ fs = before)

\* C24: create_symlink(source, target), nothing failing underneath, returns
\* success and leaves target a symlink to source, whatever occupied target
\* before: nothing, a regular file, a symlink, or a symlink whose destination
\* does not exist.
C24_CreateSymlinkReplacesTarget ==
    (last.op = "create_symlink" /\ last.fault = NoFault)
    => /\ last.ok
       /\ fs[last.tgt] = Link(last.src)
       /\ \A p \in DOMAIN fs : p # last.tgt => fs[p] = before[p]

\* a Replace that succeeded on a target holding regular content is on record
WasReplaced ==
    \/ last.op = "replace" /\ last.ok /\ before[last.tgt].kind = "file"
    \/ prev.op = "replace" /\ prev.ok /\ before2[prev.tgt].kind = "file"

\* C28, as claimed: on a system that started without a backup file, the
\* backup of the target exists exactly when the target has been replaced by
\* a Replace while it held regular content.
C28_BackupIffReplaced ==
    (runs = 2 /\ BackupOf(before2, EngineTarget).kind = "none")
    => (BackupOf(fs, EngineTarget).kind # "none" <=> WasReplaced)

\* C28, amended: a backup file appears or changes only in a Replace of a
\* target that holds regular content at the call, and a successful such
\* Replace leaves the backup holding that content and those permission bits;
\* Restore and create_symlink create and change no backup; Restore consults
\* nothing but the existence of the backup: without one it succeeds and
\* changes nothing, and with one it moves the backup onto the target whatever
\* the target holds, after which the backup is gone.
C28_BackupRelationship ==
    /\ last.op = "replace"
       => /\ BackupOf(fs, last.tgt) # BackupOf(before, last.tgt)
             => /\ before[last.tgt].kind = "file"
                /\ BackupOf(fs, last.tgt).kind = "file"
          /\ (last.ok /\ before[last.tgt].kind = "file")
             => /\ BackupOf(fs, last.tgt).kind = "file"
                /\ BackupOf(fs, last.tgt).content = before[last.tgt].content
                /\ BackupOf(fs, last.tgt).mode = before[last.tgt].mode
    /\ last.op = "create_symlink"
       => BackupOf(fs, last.tgt) = BackupOf(before, last.tgt)
    /\ last.op = "restore"
       => /\ BackupOf(fs, last.tgt) \in {None, BackupOf(before, last.tgt)}
          /\ BackupOf(before, last.tgt).kind = "none"
             => (last.ok /\ fs = before)
          /\ (BackupOf(before, last.tgt).kind # "none" /\ last.fault = NoFault)
             => /\ last.ok
                /\ fs[last.tgt] = BackupOf(before, last.tgt)
                /\ BackupOf(fs, last.tgt).kind = "none"

\* a Replace has taken the backup of a regular file and a Restore has then
\* consumed it
C28_Witness ==
    /\ prev.op = "replace" /\ prev.ok /\ before2[prev.tgt].kind = "file"
    /\ BackupOf(before2, prev.tgt).kind = "none"
    /\ BackupOf(before, prev.tgt).kind = "file"
    /\ last.op = "restore" /\ last.ok
    /\ BackupOf(fs, last.tgt).kind = "none"
    /\ fs[last.tgt] = before2[last.tgt]

(***************************************************************************)
(* Experiment specification: enable and disable runs of one selected       *)
(* experiment on a host of some release, every run with some failure of    *)
(* the environment or none.                                                *)
(***************************************************************************)
HostReleases == {Rel(2, 3, 1, 0), Rel(2, 4, 1, 0), Rel(2, 5, 1, 0)}

\* the file of each experiment whose system calls the environment may fail,
\* and whose target the system may not ship
ProbeName(e) ==
    IF e.name = "coreutils" THEN "date"
    ELSE IF e.name = "diffutils" THEN "diff"
    ELSE IF e.name = "findutils" THEN "find"
    ELSE "sudo"

\* what the system ships at the experiment's target paths before any run:
\* su and sudo set-user-id in /usr/bin, visudo in /usr/sbin, every other
\* utility in /usr/bin; the probe file present or not
SystemFile(t) ==
    IF file_name(t) \in {"su", "sudo"}
    THEN (IF parent(t) = UsrBin THEN File("orig", 2541) ELSE None)
    ELSE IF file_name(t) = "visudo"
    THEN (IF parent(t) = UsrSbin THEN File("orig", 493) ELSE None)
    ELSE File("orig", 493)

Layouts(e) ==
    {[t \in TargetsOf(e) |->
         IF file_name(t) = ProbeName(e) /\ ~present THEN None ELSE SystemFile(t)] :
     present \in BOOLEAN}

\* read_dir order: the rotations of the names of the bin directory
Orders(e) ==
    {Rotation(e, k) : k \in DOMAIN BinNames(e)}
        \cup (IF BinNames(e) = <<>> THEN {<<>>} ELSE {})

EnableFaults(e) ==
    {NoFault, <<"run", build("apt-get", <<"install", "-y", e.package>>)>>}
        \cup (IF e.kind = "sudors"
              THEN {<<"run", build("lsb_release", <<"-rs">>)>>} ELSE {})
        \cup {<<k, backup_filename(join(UsrBin, ProbeName(e)))>> :
                 k \in {"copy", "copy_partial", "set_permissions"}}
        \cup {<<k, join(UsrBin, ProbeName(e))>> : k \in {"remove_file", "symlink"}}
        \cup (IF e.kind = "sudors"
              THEN {<<"symlink", join(UsrSbin, "visudo")>>} ELSE {})

DisableFaults(e) ==
    {NoFault, <<"run", build("apt-get", <<"remove", "-y", e.package>>)>>,
     <<"run", build("dpkg-query", <<"-s", e.package>>)>>,
     <<"rename", backup_filename(join(UsrBin, ProbeName(e)))>>}

Init ==
    /\ \E e \in Experiments :
          /\ selected = <<e>>
          /\ \E l \in Layouts(e) :
                fs = [p \in PathsOf(e) |-> IF p \in DOMAIN l THEN l[p] ELSE None]
    /\ release \in HostReleases
    /\ installed = {}
    /\ log = <<>>
    /\ last = NoOp
    /\ prev = NoOp
    /\ before = fs
    /\ before2 = fs
    /\ beforeInst = installed
    /\ beforeInst2 = installed
    /\ runs = 0
    /\ uid = 0
    /\ id = "Ubuntu"
    /\ cli_args = NoArgs
    /\ search_path = SearchPath

\* what the compatibility gate decided in a run of enable
GateOutcome(e, no_compatibility_check, fault) ==
    IF no_compatibility_check THEN "bypassed"
    ELSE LET c == check_compatible(Ctx(fs, installed, fault, FALSE), e, release)
         IN  IF ~c.ok THEN "failed"
             ELSE IF c.ret THEN "compatible" ELSE "incompatible"

Enable(e, no_compatibility_check, fault, strip, order) ==
    LET s == Experiment_enable(Ctx(fs, installed, fault, strip), e,
                               no_compatibility_check, release, order)
    IN  /\ runs < MaxRuns
        /\ \E i \in DOMAIN selected : selected[i] = e
        /\ runs' = runs + 1
        /\ fs' = s.fs
        /\ installed' = s.installed
        /\ log' = s.log
        /\ last' = [NoOp EXCEPT !.op = "enable", !.exp = e.name,
                                !.ncc = no_compatibility_check,
                                !.ok = s.ok, !.panic = s.panic,
                                !.gate = GateOutcome(e, no_compatibility_check,
                                                     fault),
                                !.acted = Acted(s.log),
                                !.clean = (fault = NoFault),
                                !.targets = ReplaceTargets(s.log)]
        /\ prev' = last
        /\ before' = fs
        /\ before2' = before
        /\ beforeInst' = installed
        /\ beforeInst2' = beforeInst
        /\ UNCHANGED <<release, selected, uid, id, cli_args,
                       search_path>>

Disable(e, fault, order) ==
    LET s == Experiment_disable(Ctx(fs, installed, fault, FALSE), e, order)
    IN  /\ runs < MaxRuns
        /\ \E i \in DOMAIN selected : selected[i] = e
        /\ runs' = runs + 1
        /\ fs' = s.fs
        /\ installed' = s.installed
        /\ log' = s.log
        /\ last' = [NoOp EXCEPT !.op = "disable", !.exp = e.name,
                                !.ok = s.ok, !.panic = s.panic,
                                !.fault = fault,
                                !.acted = Acted(s.log),
                                !.clean = (fault = NoFault),
                                !.targets = RestoreTargets(s.log)]
        /\ prev' = last
        /\ before' = fs
        /\ before2' = before
        /\ beforeInst' = installed
        /\ beforeInst2' = beforeInst
        /\ UNCHANGED <<release, selected, uid, id, cli_args,
                       search_path>>

Next ==
    \/ \E e \in Experiments, ncc \in BOOLEAN :
           \E fault \in EnableFaults(e), order \in Orders(e) :
               \E strip \in StripChoices(fault) :
                   Enable(e, ncc, fault, strip, order)
    \/ \E e \in Experiments :
           \E fault \in DisableFaults(e), order \in Orders(e) :
               Disable(e, fault, order)

Spec == Init /\ [][Next]_vars

(***************************************************************************)
(* Properties of enable and disable                                        *)
(***************************************************************************)
ExpNamed(n) == CHOOSE e \in Experiments : e.name = n

InstallCmd(e) == build("apt-get", <<"install", "-y", e.package>>)
RemoveCmd(e) == build("apt-get", <<"remove", "-y", e.package>>)
InstalledCheckCmd(e) == build("dpkg-query", <<"-s", e.package>>)

\* the events of the last run of one kind
EventsOf(kind) == {i \in DOMAIN log : log[i][1] = kind}

\* no event of the last run is a file operation
NoFileOperation == \A i \in DOMAIN log : log[i][1] = "run"

\* C4: at most one backup file per target path (a run takes at most one
\* backup of a target, and no backup file serves two targets); an enable that
\* follows a successful enable, with no disable in between, leaves every
\* existing backup as it is, content and permissions, and takes no backup of
\* a target that has one.
C4_OneBackupPerTarget ==
    /\ \A i, j \in EventsOf("backup") : log[i][2] = log[j][2] => i = j
    /\ \A p \in DOMAIN fs :
          Cardinality({t \in DOMAIN fs : backup_filename(t) = p}) <= 1
    /\ (prev.op = "enable" /\ prev.ok /\ prev.acted /\ last.op = "enable")
       => \A t \in TargetsOf(ExpNamed(last.exp)) :
              BackupOf(before, t).kind # "none"
              => /\ BackupOf(fs, t) = BackupOf(before, t)
                 /\ \A i \in EventsOf("backup") : log[i][2] # t

\* enable has run twice in a row on a target whose original is backed up
C4_Witness ==
    /\ prev.op = "enable" /\ prev.ok /\ prev.acted
    /\ last.op = "enable" /\ last.ok /\ last.acted
    /\ \E t \in TargetsOf(ExpNamed(last.exp)) :
          /\ before2[t].kind = "file"
          /\ BackupOf(before, t) = before2[t]
          /\ BackupOf(fs, t) = before2[t]
          /\ fs[t].kind = "link"

\* C5: in disable of an installed experiment the package is removed only
\* after Restore has been called for every file in scope, none failing: when
\* the removal is issued, one Restore per file precedes it, none follows it,
\* and no restored target still has its backup waiting.
C5_RestoreBeforeRemove ==
    last.op = "disable"
    => \A r \in EventsOf("run") :
          log[r][2] = RemoveCmd(ExpNamed(last.exp))
          => /\ \A n \in PkgNames(ExpNamed(last.exp)) :
                   Cardinality({i \in EventsOf("restore") :
                                   i < r /\ file_name(log[i][2]) = n}) = 1
             /\ \A i \in EventsOf("restore") :
                   i < r /\ BackupOf(fs, log[i][2]).kind = "none"

\* a disable has restored a backed-up target and then removed the package
C5_Witness ==
    /\ last.op = "disable" /\ last.ok
    /\ \E r \in EventsOf("run") : log[r][2] = RemoveCmd(ExpNamed(last.exp))
    /\ \E i \in EventsOf("restore") :
          /\ BackupOf(before, log[i][2]).kind = "file"
          /\ fs[log[i][2]] = BackupOf(before, log[i][2])

\* C6: enable on an incompatible host, the check not bypassed, returns
\* success, runs no package-manager command and performs no file operation.
C6_IncompatibleEnableIsNoOp ==
    (last.op = "enable" /\ last.gate = "incompatible")
    => /\ last.ok
       /\ NoFileOperation
       /\ \A i \in EventsOf("run") : log[i][2][1] \notin {"apt-get", "dpkg-query"}
       /\ fs = before
       /\ installed = beforeInst

\* enable was skipped on an incompatible host whose targets are regular files
C6_Witness ==
    /\ last.op = "enable" /\ last.gate = "incompatible" /\ last.ok
    /\ release = Rel(2, 3, 1, 0)
    /\ \E t \in TargetsOf(ExpNamed(last.exp)) : fs[t].kind = "file"

\* C7: with the compatibility check bypassed, a successful enable installs
\* the package and calls Replace for every file in scope, whatever the host
\* release.
C7_BypassEnablesEverywhere ==
    (last.op = "enable" /\ last.ncc /\ last.ok)
    => /\ \E i \in EventsOf("run") : log[i][2] = InstallCmd(ExpNamed(last.exp))
       /\ \A n \in PkgNames(ExpNamed(last.exp)) :
             \E i \in EventsOf("replace") : file_name(log[i][3]) = n

\* C8: disable of an experiment whose package is not installed returns
\* success, runs nothing but the installed-check and performs no file
\* operation.
C8_DisableNotInstalledIsNoOp ==
    (last.op = "disable" /\ ExpNamed(last.exp).package \notin beforeInst)
    => /\ last.ok
       /\ NoFileOperation
       /\ \A i \in EventsOf("run") :
             log[i][2] = InstalledCheckCmd(ExpNamed(last.exp))
       /\ fs = before
       /\ installed = beforeInst

\* disable has run before any enable, on targets that are regular files
C8_Witness ==
    /\ last.op = "disable" /\ last.ok
    /\ ExpNamed(last.exp).package \notin beforeInst
    /\ EventsOf("run") # {}
    /\ \E t \in TargetsOf(ExpNamed(last.exp)) : fs[t].kind = "file"

\* C10: on a compatible host, enable of a directory-derived experiment calls
\* Replace at most once per file of the bin directory, and once for each when
\* it succeeds, with target /usr/bin/<name> and source the unified binary if
\* there is one, the file itself otherwise; a target that was a regular file
\* is backed up before its symlink is created.
C10_ReplaceEveryListedFile ==
    (last.op = "enable" /\ last.gate = "compatible"
        /\ ExpNamed(last.exp).kind = "uutils")
    => LET e == ExpNamed(last.exp) IN
       /\ \A i \in EventsOf("replace") :
             /\ file_name(log[i][3]) \in PkgNames(e)
             /\ log[i][3] = <<"/usr/bin", file_name(log[i][3])>>
             /\ log[i][2] = IF e.unified_binary = <<>>
                            THEN <<e.bin_directory, file_name(log[i][3])>>
                            ELSE e.unified_binary[1]
             /\ \A j \in EventsOf("replace") : log[j][3] = log[i][3] => i = j
       /\ last.ok => \A n \in PkgNames(e) :
                        \E i \in EventsOf("replace") : file_name(log[i][3]) = n
       /\ \A j \in EventsOf("symlink") :
             before[log[j][3]].kind = "file"
             => /\ \E i \in EventsOf("backup") : i < j /\ log[i][2] = log[j][3]
                /\ last.ok => BackupOf(fs, log[j][3]) = before[log[j][3]]
       /\ last.ok => \A j \in EventsOf("symlink") :
                        fs[log[j][3]] = Link(log[j][2])

\* both kinds of source have been used: a unified binary and per-file binaries
C10_Witness ==
    /\ last.op = "enable" /\ last.gate = "compatible" /\ last.ok
    /\ last.exp = "findutils"
    /\ fs[join(UsrBin, "find")] = Link(join("/usr/lib/cargo/bin/findutils", "find"))
    /\ fs[join(UsrBin, "xargs")] = Link(join("/usr/lib/cargo/bin/findutils", "xargs"))
    /\ BackupOf(fs, join(UsrBin, "xargs")) = File("orig", 493)

\* the filesystem once the package of e is installed
AfterInstall(f, e) ==
    [p \in DOMAIN f |-> IF p \in PkgFiles(e) THEN File("rust", 493) ELSE f[p]]

\* where a name is found on the search path, /usr/bin/<name> when nowhere
ExistingPath(f, n) ==
    IF \E i \in DOMAIN SearchPath :
          fs_exists(f, <<SearchPath[i], n>>) = "yes"
    THEN <<SearchPath[CHOOSE i \in DOMAIN SearchPath :
                         /\ fs_exists(f, <<SearchPath[i], n>>) = "yes"
                         /\ \A j \in 1..(i - 1) :
                                fs_exists(f, <<SearchPath[j], n>>) # "yes"], n>>
    ELSE <<"/usr/bin", n>>

\* C11: enable of the sudo-rs experiment, once past the gate, calls Replace
\* for no other file than su, sudo and visudo of /usr/lib/cargo/bin, whatever
\* else the package ships, at most once each, and once each when it succeeds;
\* the target is the path the name resolves to on the search path, or
\* /usr/bin/<name> when it does not resolve; a successful enable leaves the
\* target a symlink to /usr/lib/cargo/bin/<name>, and a target that was a
\* regular file was backed up before its symlink was created.
C11_SudoRsThreeFixedFiles ==
    (last.op = "enable" /\ last.exp = "sudo-rs"
        /\ last.gate \in {"compatible", "bypassed"})
    => /\ \A i \in EventsOf("replace") :
             /\ parent(log[i][2]) = "/usr/lib/cargo/bin"
             /\ file_name(log[i][2]) \in {"su", "sudo", "visudo"}
             /\ log[i][3] = ExistingPath(AfterInstall(before, SudoRs),
                                         file_name(log[i][2]))
             /\ \A j \in EventsOf("replace") : log[j][2] = log[i][2] => i = j
       /\ last.ok
          => /\ Cardinality(EventsOf("replace")) = 3
             /\ \A n \in {"su", "sudo", "visudo"} :
                   LET t == ExistingPath(AfterInstall(before, SudoRs), n) IN
                   /\ \E i \in EventsOf("replace") :
                         log[i][2] = <<"/usr/lib/cargo/bin", n>> /\ log[i][3] = t
                   /\ fs[t] = Link(<<"/usr/lib/cargo/bin", n>>)
                   /\ before[t].kind = "file"
                      => /\ BackupOf(fs, t) = before[t]
                         /\ \E i \in EventsOf("backup"), j \in EventsOf("symlink") :
                               i < j /\ log[i][2] = t /\ log[j][3] = t

\* visudo was found in /usr/sbin and replaced there, sudo was found nowhere
\* and created in /usr/bin
C11_Witness ==
    /\ last.op = "enable" /\ last.exp = "sudo-rs" /\ last.ok
    /\ before[join(UsrSbin, "visudo")] = File("orig", 493)
    /\ fs[join(UsrSbin, "visudo")] = Link(join(CargoBin, "visudo"))
    /\ BackupOf(fs, join(UsrSbin, "visudo")) = File("orig", 493)
    /\ before[join(UsrBin, "sudo")].kind = "none"
    /\ fs[join(UsrBin, "sudo")] = Link(join(CargoBin, "sudo"))
    /\ fs[join(UsrBin, "visudo")].kind = "none"

\* C14: when the package query fails (the command errors or cannot be run),
\* check_installed answers false and returns no error: disable returns
\* success, runs nothing but the query and changes neither the filesystem
\* nor the installed packages, even when the package is installed.
C14_QueryFailureMeansNotInstalled ==
    (last.op = "disable"
        /\ last.fault = <<"run", InstalledCheckCmd(ExpNamed(last.exp))>>)
    => /\ last.ok /\ ~last.panic
       /\ log # <<>>
       /\ \A i \in DOMAIN log :
             log[i] = <<"run", InstalledCheckCmd(ExpNamed(last.exp)), NoPath>>
       /\ fs = before
       /\ installed = beforeInst

\* the query failed on a host where the experiment is enabled
C14_Witness ==
    /\ last.op = "disable" /\ last.ok
    /\ last.fault = <<"run", InstalledCheckCmd(ExpNamed(last.exp))>>
    /\ ExpNamed(last.exp).package \in beforeInst
    /\ ExpNamed(last.exp).package \in installed
    /\ \E t \in TargetsOf(ExpNamed(last.exp)) :
          fs[t].kind = "link" /\ BackupOf(fs, t).kind = "file"

\* the package-manager commands of the last run
PackageManagerRuns == {i \in EventsOf("run") : log[i][2][1] = "apt-get"}

Uninterrupted(op, e, no_compatibility_check, f, inst) ==
    IF op = "enable"
    THEN Experiment_enable(Ctx(f, inst, NoFault, TRUE), e,
                           no_compatibility_check, release, Rotation(e, 1))
    ELSE Experiment_disable(Ctx(f, inst, NoFault, TRUE), e, Rotation(e, 1))

\* C13: an enable (or disable) that failed after any of its steps, run again
\* with the same arguments and completing without failure, leaves the
\* filesystem and the installed packages as one uninterrupted run from the
\* state before the failed run leaves them, and every file that was a
\* regular file then is still there or in its backup, content and permissions.
C13_RerunAfterFailure ==
    (/\ prev.op \in {"enable", "disable"} /\ ~prev.ok
     /\ last.op = prev.op /\ last.exp = prev.exp /\ last.ncc = prev.ncc
     /\ last.clean /\ last.ok)
    => LET e == ExpNamed(last.exp)
           r == Uninterrupted(last.op, e, last.ncc, before2, beforeInst2)
       IN  r.ok
           => /\ fs = r.fs
              /\ installed = r.installed
              /\ \A t \in TargetsOf(e) :
                    before2[t].kind = "file"
                    => \/ fs[t] = before2[t]
                       \/ BackupOf(fs, t) = before2[t]

\* C26: when the distribution query fails during the compatibility check of
\* an enable, the run returns an error and does not end abnormally, and it
\* issues no package-manager command and no file operation and leaves the
\* filesystem and the package state as they were.
C26_GateFailureIsAnError ==
    (last.op = "enable" /\ last.gate = "failed")
    => /\ ~last.ok
       /\ ~last.panic
       /\ NoFileOperation
       /\ PackageManagerRuns = {}
       /\ fs = before
       /\ installed = beforeInst

\* C29: in every state reached by runs of enable and disable, failed runs
\* included, an experiment whose package is not installed has no backup file
\* outstanding for any of its targets.
C29_NoBackupWithoutPackage ==
    \A i \in DOMAIN selected :
       selected[i].package \notin installed
       => \A t \in TargetsOf(selected[i]) : BackupOf(fs, t).kind = "none"

\* C30: after an enable that succeeded (package installed, targets
\* replaced) and a disable that then succeeded (targets restored, package
\* removed), every target path is in the state it had before the enable,
\* the targets that did not exist before the enable included.
C30_EnableDisableRoundTrip ==
    (prev.op = "enable" /\ prev.ok /\ prev.acted
        /\ last.op = "disable" /\ last.ok /\ last.acted
        /\ last.exp = prev.exp)
    => \A t \in TargetsOf(ExpNamed(last.exp)) : fs[t] = before2[t]

(***************************************************************************)
(* Enabled specification: the same runs of enable and disable, starting on *)
(* a host where one experiment has been enabled by a successful, undisturbed*)
(* run of enable on the system as shipped.                                 *)
(***************************************************************************)
InitEnabled ==
    /\ search_path = SearchPath
    /\ release \in HostReleases
    /\ \E e \in Experiments, strip \in StripChoices(NoFault) :
          \E l \in Layouts(e), order \in Orders(e) :
             LET shipped == [p \in PathsOf(e) |->
                                IF p \in DOMAIN l THEN l[p] ELSE None]
                 s == Experiment_enable(Ctx(shipped, {}, NoFault, strip), e,
                                        FALSE, release, order)
             IN  /\ s.ok
                 /\ e.package \in s.installed
                 /\ selected = <<e>>
                 /\ fs = s.fs
                 /\ installed = s.installed
    /\ log = <<>>
    /\ last = NoOp
    /\ prev = NoOp
    /\ before = fs
    /\ before2 = fs
    /\ beforeInst = installed
    /\ beforeInst2 = installed
    /\ runs = 0
    /\ uid = 0
    /\ id = "Ubuntu"
    /\ cli_args = NoArgs

SpecEnabled == InitEnabled /\ [][Next]_vars

\* the last run issued the removal of the experiment's package
RemovalIssued ==
    \E i \in EventsOf("run") : log[i][2] = RemoveCmd(ExpNamed(last.exp))

C33_DisableIgnoresRelease ==
    (last.op = "disable" /\ last.fault = NoFault
        /\ ExpNamed(last.exp).package \in beforeInst)
    => /\ last.ok
       /\ {file_name(t) : t \in last.targets} = PkgNames(ExpNamed(last.exp))
       /\ \A t \in last.targets :
             /\ BackupOf(fs, t).kind = "none"
             /\ BackupOf(before, t).kind # "none"
                => fs[t] = BackupOf(before, t)
       /\ RemovalIssued
       /\ Cardinality(PackageManagerRuns) = 1
       /\ ExpNamed(last.exp).package \notin installed
       /\ \A i \in EventsOf("run") : log[i][2][1] # "lsb_release"

\* an experiment enabled with the compatibility check bypassed, on a host
\* whose release fails the gate, has been disabled
C33_Witness ==
    /\ prev.op = "enable" /\ prev.ncc /\ prev.ok /\ prev.acted
    /\ ~check_compatible(Ctx(fs, installed, NoFault, FALSE),
                          ExpNamed(prev.exp), release).ret
    /\ last.op = "disable" /\ last.fault = NoFault /\ last.exp = prev.exp
    /\ last.ok /\ last.acted
    /\ \E t \in last.targets : fs[t] = before2[t] /\ before[t].kind = "link"
    /\ RemovalIssued

(***************************************************************************)
(* Search-path specification: runs of enable and disable of the sudo-rs    *)
(* experiment on hosts whose search path (the PATH of the invoking         *)
(* process, which which() reads) may list the package's bin directory,     *)
(* before or after the system directories.                                 *)
(***************************************************************************)
SearchPaths ==
    {SearchPath, <<CargoBin>> \o SearchPath, SearchPath \o <<CargoBin>>}

InitPath ==
    /\ search_path \in SearchPaths
    /\ selected = <<SudoRs>>
    /\ \E l \in Layouts(SudoRs) :
          fs = [p \in PathsOf(SudoRs) |-> IF p \in DOMAIN l THEN l[p] ELSE None]
    /\ release \in HostReleases
    /\ installed = {}
    /\ log = <<>>
    /\ last = NoOp
    /\ prev = NoOp
    /\ before = fs
    /\ before2 = fs
    /\ beforeInst = installed
    /\ beforeInst2 = installed
    /\ runs = 0
    /\ uid = 0
    /\ id = "Ubuntu"
    /\ cli_args = NoArgs

SpecPath == InitPath /\ [][Next]_vars

\* C31: no run of enable calls Replace with a target equal to its source.
C31_NeverReplaceWithItself ==
    last.op = "enable"
    => \A i \in EventsOf("replace") : log[i][2] # log[i][3]

\* C32: a successful disable of sudo-rs that follows a successful enable
\* passes to Restore exactly the target paths that enable passed to Replace,
\* and leaves no backup of those targets outstanding when it has removed the
\* package.
C32_DisableRestoresWhatEnableReplaced ==
    (prev.op = "enable" /\ prev.ok /\ prev.acted /\ prev.exp = "sudo-rs"
        /\ last.op = "disable" /\ last.ok /\ last.acted
        /\ last.exp = "sudo-rs")
    => /\ last.targets = prev.targets
       /\ \A t \in prev.targets : BackupOf(fs, t).kind = "none"

(***************************************************************************)
(* Gate specification: the compatibility gate of every experiment of the   *)
(* registry applied to a host of any release string.                       *)
(***************************************************************************)
GateReleases ==
    {Rel(2, b, c, d) : b \in {2, 3, 4, 5}, c \in {0, 1}, d \in {0, 4}}
        \cup {Rel(2, 0, 0, 4),
              <<57, 46, 49, 48>>,                  \* "9.10"
              <<50, 52>>,                          \* "24"
              <<50, 52, 46, 48, 52, 46, 49>>}      \* "24.04.1"

GateFaults == {NoFault, <<"run", build("lsb_release", <<"-rs">>)>>}

InitGate ==
    /\ fs = [p \in {Elsewhere} |-> None]
    /\ installed = {}
    /\ release \in GateReleases
    /\ selected = all_experiments
    /\ log = <<>>
    /\ last = NoOp
    /\ prev = NoOp
    /\ before = fs
    /\ before2 = fs
    /\ beforeInst = installed
    /\ beforeInst2 = installed
    /\ runs = 0
    /\ uid = 0
    /\ id = "Ubuntu"
    /\ cli_args = NoArgs
    /\ search_path = SearchPath

CheckCompatible(e, fault) ==
    LET s == check_compatible(Ctx(fs, installed, fault, FALSE), e, release)
    IN  /\ runs < MaxRuns
        /\ runs' = runs + 1
        /\ log' = s.log
        /\ last' = [NoOp EXCEPT !.op = "check_compatible", !.exp = e.name,
                                !.ok = s.ok, !.panic = s.panic,
                                !.gate = IF ~s.ok THEN "failed"
                                         ELSE IF s.ret THEN "compatible"
                                         ELSE "incompatible"]
        /\ prev' = last
        /\ UNCHANGED <<fs, installed, release, selected, before, before2,
                       beforeInst, beforeInst2, uid, id, cli_args,
                       search_path>>

NextGate ==
    \E e \in Experiments, fault \in GateFaults : CheckCompatible(e, fault)

SpecGate == InitGate /\ [][NextGate]_vars

\* x >= y in the lexicographic order of byte strings: y is a prefix of x, or
\* x has the larger byte at the first position where they differ
LexGE(x, y) ==
    \/ Len(x) >= Len(y) /\ \A j \in 1..Len(y) : x[j] = y[j]
    \/ \E k \in 1..Len(x) :
          /\ k <= Len(y)
          /\ x[k] > y[k]
          /\ \A j \in 1..(k - 1) : x[j] = y[j]

\* the minimum supported release of an experiment
MinimumRelease(e) ==
    IF e.kind = "uutils" THEN e.first_supported_release
    ELSE CHOOSE m \in e.supported_releases :
             \A o \in e.supported_releases : LexGE(o, m)

\* C9, as claimed: for every experiment the gate returns true exactly when
\* the release is lexicographically >= the experiment's minimum release.
C9_GateIsMinimumRelease ==
    (last.op = "check_compatible" /\ last.ok)
    => (last.gate = "compatible"
           <=> LexGE(release, MinimumRelease(ExpNamed(last.exp))))

\* C9, amended: that holds of the directory-derived experiments (minimum
\* "24.04": "23.10" false, "24.04" true, "24.10" true); the sudo-rs gate
\* returns true exactly for the releases "24.04", "24.10" and "25.04".
C9_GateMinimumOrMembership ==
    (last.op = "check_compatible" /\ last.ok)
    => LET e == ExpNamed(last.exp)
           yes == last.gate = "compatible"
       IN  /\ e.kind = "uutils"
              => (yes <=> LexGE(release, e.first_supported_release))
           /\ e.name \in {"coreutils", "findutils"}
              => /\ release = <<50, 51, 46, 49, 48>> => ~yes
                 /\ release = <<50, 52, 46, 48, 52>> => yes
                 /\ release = <<50, 52, 46, 49, 48>> => yes
           /\ e.kind = "sudors"
              => (yes <=> release \in {<<50, 52, 46, 48, 52>>,
                                       <<50, 52, 46, 49, 48>>,
                                       <<50, 53, 46, 48, 52>>})

\* the inclusive boundary: release "24.04" against the minimum "24.04"
C9_Witness ==
    /\ last.op = "check_compatible" /\ last.ok
    /\ last.exp = "coreutils"
    /\ release = <<50, 52, 46, 48, 52>>
    /\ last.gate = "compatible"

\* C25: the sudo-rs gate returns true exactly when the release string is
\* one of "24.04", "24.10", "25.04"; for "20.04" it returns false.
C25_SudoRsGateIsMembership ==
    (last.op = "check_compatible" /\ last.ok /\ last.exp = "sudo-rs")
    => /\ last.gate = "compatible"
              <=> release \in {Rel(2, 4, 0, 4), Rel(2, 4, 1, 0), Rel(2, 5, 0, 4)}
       /\ release = Rel(2, 0, 0, 4) => last.gate = "incompatible"

\* the sudo-rs gate has declined release "20.04"
C25_Witness ==
    /\ last.op = "check_compatible" /\ last.ok /\ last.exp = "sudo-rs"
    /\ release = Rel(2, 0, 0, 4)
    /\ last.gate = "incompatible"

(***************************************************************************)
(* Tool specification: runs of the whole tool (main) on one host by one    *)
(* user with one set of command line options, the subcommand, the answer   *)
(* to the prompt and the failure of the environment chosen at every run.   *)
(***************************************************************************)
Hosts == {[uid |-> 0, id |-> "Ubuntu"], [uid |-> 0, id |-> "Debian"],
          [uid |-> 1000, id |-> "Ubuntu"]}

MainReleases == {Rel(2, 4, 1, 0)}

\* --all and --experiments as given on the command line
MainSelections ==
    {[all |-> FALSE, experiments |-> default_experiments],
     [all |-> TRUE, experiments |-> <<"findutils">>]}

MainArgs ==
    {[yes |-> y, all |-> sel.all, no_compatibility_check |-> ncc,
      experiments |-> sel.experiments] :
     y \in BOOLEAN, ncc \in BOOLEAN, sel \in MainSelections}

AllPaths == UNION {PathsOf(e) : e \in Experiments}

\* what the prompt returns; no prompt with --yes
Answers(yes) == IF yes THEN {"none"} ELSE {"yes", "no", "err"}

\* failures of a run that gets past the prompt
MainFaults(cmd) ==
    {NoFault}
        \cup (IF cmd = "enable"
              THEN {<<"run", build("apt-get", <<"update">>)>>,
                    <<"run", build("apt-get", <<"install", "-y", "sudo-rs">>)>>,
                    <<"read_dir", join(Coreutils.bin_directory, "")>>,
                    <<"symlink", join(UsrBin, "date")>>}
              ELSE {<<"run", build("lsb_release", <<"-is">>)>>,
                    <<"run", build("apt-get", <<"remove", "-y", "rust-coreutils">>)>>,
                    <<"rename", backup_filename(join(UsrBin, "date"))>>})

InitMain ==
    /\ \E h \in Hosts : uid = h.uid /\ id = h.id
    /\ release \in MainReleases
    /\ cli_args \in MainArgs
    /\ search_path = SearchPath
    /\ fs = [p \in AllPaths |->
                IF \E e \in Experiments : p \in TargetsOf(e)
                THEN SystemFile(p) ELSE None]
    /\ installed = {}
    /\ selected = <<>>
    /\ log = <<>>
    /\ last = NoOp
    /\ prev = NoOp
    /\ before = fs
    /\ before2 = fs
    /\ beforeInst = installed
    /\ beforeInst2 = installed
    /\ runs = 0

Main(cmd, answer, fault, k) ==
    LET s == main(Ctx(fs, installed, fault, TRUE), uid, id, cli_args, cmd, answer,
                  release, k)
    IN  /\ runs < MaxRuns
        /\ runs' = runs + 1
        /\ fs' = s.fs
        /\ installed' = s.installed
        /\ log' = s.log
        /\ selected' = selected_experiments(cli_args.all, cli_args.experiments)
        /\ last' = [NoOp EXCEPT !.op = "main", !.cmd = cmd, !.answer = answer,
                                !.ncc = cli_args.no_compatibility_check,
                                !.ok = s.ok, !.panic = s.panic,
                                !.exit = s.exit, !.fault = fault,
                                !.acted = Acted(s.log),
                                !.clean = (fault = NoFault)]
        /\ prev' = last
        /\ before' = fs
        /\ before2' = before
        /\ beforeInst' = installed
        /\ beforeInst2' = beforeInst
        /\ UNCHANGED <<release, uid, id, cli_args,
                       search_path>>

RunEnable(answer, fault, k) == Main("enable", answer, fault, k)

RunDisable(answer, fault, k) == Main("disable", answer, fault, k)

NextMain ==
    \/ \E answer \in Answers(cli_args.yes) :
           \E fault \in (IF answer \in {"none", "yes"} THEN MainFaults("enable")
                         ELSE {NoFault}), k \in 1..NumUtils :
               RunEnable(answer, fault, k)
    \/ \E answer \in Answers(cli_args.yes) :
           \E fault \in (IF answer \in {"none", "yes"} THEN MainFaults("disable")
                         ELSE {NoFault}), k \in 1..NumUtils :
               RunDisable(answer, fault, k)

SpecMain == InitMain /\ [][NextMain]_vars

(***************************************************************************)
(* Properties of a run of the tool                                         *)
(***************************************************************************)
\* the call of the last run that the injected failure made fail: a package
\* install or removal, a directory listing, the symlink of a Replace or the
\* rename of a Restore
Struck(i) ==
    \/ /\ last.fault[1] = "run"
       /\ last.fault[2][1] = "apt-get"
       /\ last.fault[2][2] # "update"
       /\ log[i] = <<"run", last.fault[2], NoPath>>
    \/ /\ last.fault[1] = "read_dir"
       /\ log[i] = <<"list_files", last.fault[2], NoPath>>
    \/ /\ last.fault[1] = "symlink"
       /\ log[i][1] = "symlink" /\ log[i][3] = last.fault[2]
    \/ /\ last.fault[1] = "rename"
       /\ log[i][1] = "restore"
       /\ <<log[i][2][1], "." \o log[i][2][2] \o ".oxidizr.bak">> = last.fault[2]
       /\ BackupOf(before, log[i][2]).kind # "none"

\* the experiment was reached by the last run: its package was queried,
\* installed or removed
Reached(e) ==
    \E i \in EventsOf("run") :
        log[i][2] \in {InstallCmd(e), RemoveCmd(e), InstalledCheckCmd(e)}

\* C12: when a step of enable or disable fails (package install or removal,
\* directory listing, a filesystem step of Replace or Restore), the run
\* returns an error, nothing is called after the failing step (no further
\* file, no later selected experiment), and what was done before it stays:
\* symlinks created, files restored, packages installed.
C12_FailureHaltsWithoutRollback ==
    last.op = "main"
    => \A i \in DOMAIN log :
          Struck(i)
          => /\ ~last.ok /\ ~last.exit /\ ~last.panic
             /\ i = Len(log)
             /\ \A n \in DOMAIN selected :
                   ~Reached(selected[n])
                   => /\ \A m \in n..Len(selected) : ~Reached(selected[m])
                      /\ \A p \in PathsOf(selected[n]) : fs[p] = before[p]
                      /\ (selected[n].package \in installed)
                            <=> (selected[n].package \in beforeInst)
             /\ \A j \in 1..(i - 1) :
                   /\ log[j][1] = "symlink" => fs[log[j][3]] = Link(log[j][2])
                   /\ (log[j][1] = "restore"
                         /\ BackupOf(before, log[j][2]).kind # "none")
                      => /\ fs[log[j][2]] = BackupOf(before, log[j][2])
                         /\ BackupOf(fs, log[j][2]).kind = "none"
                   /\ (log[j][1] = "run" /\ log[j][2][1] = "apt-get"
                         /\ log[j][2][2] # "update")
                      => \E e \in Experiments :
                            \/ log[j][2] = InstallCmd(e) /\ e.package \in installed
                            \/ log[j][2] = RemoveCmd(e) /\ e.package \notin installed

\* enable of all experiments failed at the symlink of /usr/bin/date after
\* /usr/bin/sort was replaced: sort stays replaced, date is left without its
\* file (the backup holds it), and the later experiments are untouched
C12_Witness ==
    /\ last.op = "main" /\ last.cmd = "enable" /\ ~last.ok
    /\ last.fault = <<"symlink", join(UsrBin, "date")>>
    /\ selected = all_experiments
    /\ fs[join(UsrBin, "sort")] = Link(UnifiedCoreutils)
    /\ fs[join(UsrBin, "date")].kind = "none"
    /\ BackupOf(fs, join(UsrBin, "date")) = File("orig", 493)
    /\ "rust-coreutils" \in installed
    /\ installed \cap {"rust-diffutils", "rust-findutils", "sudo-rs"} = {}
    /\ fs[join(UsrBin, "su")] = File("orig", 2541)

\* an operation that changes the system: a package-manager command or a
\* file operation (the distribution queries and the prompt are not)
Mutating(ev) ==
    \/ ev[1] \in {"replace", "backup", "symlink", "restore"}
    \/ ev[1] = "run" /\ ev[2][1] = "apt-get"

\* C15: a run by a user other than root, or on a host whose distribution id
\* is not "Ubuntu" without the bypass, returns an error and performs no
\* mutating operation (no package-list update, install, removal, backup,
\* symlink, restore); with the bypass a non-Ubuntu host gets a warning and the
\* run goes on to the prompt and the subcommand.
C15_FatalPreconditions ==
    last.op = "main"
    => /\ (uid # 0 \/ (id # "Ubuntu" /\ ~last.ncc))
          => /\ ~last.ok /\ ~last.exit
             /\ \A i \in DOMAIN log : ~Mutating(log[i]) /\ log[i][1] # "prompt"
             /\ fs = before
             /\ installed = beforeInst
       /\ uid # 0 => log = <<>>
       /\ (uid = 0 /\ id # "Ubuntu" /\ last.ncc
             /\ last.fault # <<"run", <<"lsb_release", "-is">>>>)
          => /\ \E w \in EventsOf("warn") :
                   /\ \A i \in 1..(w - 1) : log[i][2][1] = "lsb_release"
                   /\ ~cli_args.yes => log[w + 1][1] = "prompt"
             /\ (last.clean /\ last.answer \in {"none", "yes"})
                => /\ last.ok
                   /\ last.cmd = "enable"
                      => \E i \in EventsOf("run") :
                            log[i][2] = <<"apt-get", "update">>
                   /\ \E i \in EventsOf("run") :
                         log[i][2] \in {InstallCmd(selected[1]),
                                        InstalledCheckCmd(selected[1])}
       /\ id = "Ubuntu" => EventsOf("warn") = {}

\* the bypass let a run on a non-Ubuntu host replace files
C15_Witness ==
    /\ last.op = "main" /\ last.cmd = "enable" /\ last.ok
    /\ uid = 0 /\ id = "Debian" /\ last.ncc
    /\ EventsOf("warn") # {}
    /\ fs[join(UsrBin, "date")] = Link(UnifiedCoreutils)
    /\ BackupOf(fs, join(UsrBin, "date")) = File("orig", 493)

(***************************************************************************)
(* Backup-path specification: backup_filename applied to target paths,     *)
(* with and without a directory, hidden names and names of backups         *)
(* included.                                                               *)
(***************************************************************************)
BackupDirs == {"", ".", "/usr/bin", "/usr/sbin", "/home/user"}

BackupNames == {"config", ".config", "visudo", ".visudo.oxidizr.bak",
                "visudo.oxidizr.bak", ".hidden"}

BackupInputs == {join(d, n) : d \in BackupDirs, n \in BackupNames}

InitBackup ==
    /\ fs = [p \in {Elsewhere} |-> None]
    /\ installed = {}
    /\ release = <<>>
    /\ selected = <<>>
    /\ log = <<>>
    /\ last = NoOp
    /\ prev = NoOp
    /\ before = fs
    /\ before2 = fs
    /\ beforeInst = installed
    /\ beforeInst2 = installed
    /\ runs = 0
    /\ uid = 0
    /\ id = "Ubuntu"
    /\ cli_args = NoArgs
    /\ search_path = SearchPath

BackupFilename(file) ==
    /\ runs < MaxRuns
    /\ runs' = runs + 1
    /\ last' = [NoOp EXCEPT !.op = "backup_filename", !.tgt = file,
                            !.src = backup_filename(file)]
    /\ prev' = last
    /\ UNCHANGED <<fs, installed, release, selected, log, before, before2,
                   beforeInst, beforeInst2, uid, id, cli_args,
                       search_path>>

NextBackup == \E file \in BackupInputs : BackupFilename(file)

SpecBackup == InitBackup /\ [][NextBackup]_vars

\* C17: the backup path of <dir>/<name> is <dir>/.<name>.oxidizr.bak, and
\* .<name>.oxidizr.bak for a name without directory; two calls on the same
\* target give the same backup path, two calls on distinct targets give
\* distinct backup paths.
C17_BackupPathIsPureAndInjective ==
    last.op = "backup_filename"
    => /\ display(last.src)
             = (IF last.tgt[1] = "" THEN "." \o last.tgt[2] \o ".oxidizr.bak"
                ELSE last.tgt[1] \o "/." \o last.tgt[2] \o ".oxidizr.bak")
       /\ last.tgt = <<"/home/user", "config">>
          => display(last.src) = "/home/user/.config.oxidizr.bak"
       /\ last.tgt = <<"", "config">> => display(last.src) = ".config.oxidizr.bak"
       /\ last.tgt = <<"", ".hidden">> => display(last.src) = "..hidden.oxidizr.bak"
       /\ prev.op = "backup_filename"
          => /\ prev.tgt = last.tgt => prev.src = last.src
             /\ prev.tgt # last.tgt
                => /\ prev.src # last.src
                   /\ display(prev.src) # display(last.src)

\* the same name in two directories, and a bare name
C17_Witness ==
    /\ prev.op = "backup_filename" /\ prev.tgt = <<"/usr/bin", "visudo">>
    /\ last.op = "backup_filename" /\ last.tgt = <<"/usr/sbin", "visudo">>
    /\ display(prev.src) = "/usr/bin/.visudo.oxidizr.bak"
    /\ display(last.src) = "/usr/sbin/.visudo.oxidizr.bak"

(***************************************************************************)
(* Selection specification: selected_experiments applied to --all and to   *)
(* every list of at most MaxNames names, known or not.                     *)
(***************************************************************************)
SelectableNames == {"coreutils", "diffutils", "findutils", "sudo-rs", "nosuch"}

NameLists == UNION {[1..n -> SelectableNames] : n \in 0..MaxNames}

InitSelect ==
    /\ \E a \in BOOLEAN, names \in NameLists :
          cli_args = [NoArgs EXCEPT !.all = a, !.experiments = names]
    /\ fs = [p \in {Elsewhere} |-> None]
    /\ installed = {}
    /\ release = <<>>
    /\ selected = <<>>
    /\ log = <<>>
    /\ last = NoOp
    /\ prev = NoOp
    /\ before = fs
    /\ before2 = fs
    /\ beforeInst = installed
    /\ beforeInst2 = installed
    /\ runs = 0
    /\ uid = 0
    /\ id = "Ubuntu"
    /\ search_path = SearchPath

Select ==
    /\ runs < MaxRuns
    /\ runs' = runs + 1
    /\ selected' = selected_experiments(cli_args.all, cli_args.experiments)
    /\ last' = [NoOp EXCEPT !.op = "select"]
    /\ prev' = last
    /\ UNCHANGED <<fs, installed, release, log, before, before2, beforeInst,
                   beforeInst2, uid, id, cli_args,
                       search_path>>

NextSelect == Select

SpecSelect == InitSelect /\ [][NextSelect]_vars

\* position of an experiment in the registry
RegistryIndex(e) == CHOOSE i \in DOMAIN all_experiments : all_experiments[i] = e

\* C18: with --all the selection is the whole registry (coreutils, diffutils,
\* findutils, sudo-rs) whatever names are given; without it the selection
\* holds exactly the experiments of the registry whose name is among the
\* names given, or among coreutils and sudo-rs when no name is given, each
\* once and in registry order.
C18_Selection ==
    last.op = "select"
    => LET given == {cli_args.experiments[i] : i \in DOMAIN cli_args.experiments}
           wanted == IF given = {} THEN {"coreutils", "sudo-rs"} ELSE given
       IN  /\ cli_args.all
              => /\ Len(selected) = 4
                 /\ [i \in 1..4 |-> selected[i].name]
                       = <<"coreutils", "diffutils", "findutils", "sudo-rs">>
           /\ ~cli_args.all
              => /\ \A e \in Experiments :
                       (\E i \in DOMAIN selected : selected[i] = e)
                          <=> e.name \in wanted
                 /\ \A i \in DOMAIN selected : selected[i] \in Experiments
                 /\ \A i, j \in DOMAIN selected :
                       i < j => RegistryIndex(selected[i]) < RegistryIndex(selected[j])

\* the names were given in the reverse of the registry order
C18_Witness ==
    /\ last.op = "select"
    /\ ~cli_args.all
    /\ cli_args.experiments = <<"sudo-rs", "diffutils">>
    /\ Len(selected) = 2
    /\ selected[1].name = "diffutils" /\ selected[2].name = "sudo-rs"

(***************************************************************************)
(* Vector comparison: vecs_eq applied to two vectors of names, the first   *)
(* held in cli_args.experiments (main passes it the --experiments list),   *)
(* the second in selected.                                                 *)
(***************************************************************************)
\* vecs_eq(v1, v2): false when the lengths differ; otherwise every element
\* of v2 is in the hash set built from v1
vecs_eq(v1, v2) ==
    IF Len(v1) # Len(v2) THEN FALSE
    ELSE LET hs == {v1[i] : i \in DOMAIN v1}
         IN  \A i \in DOMAIN v2 : v2[i] \in hs

VecElems == {"coreutils", "sudo-rs", "findutils"}

VecLists == UNION {[1..n -> VecElems] : n \in 0..MaxNames}

InitVecs ==
    /\ \E v1 \in VecLists : cli_args = [NoArgs EXCEPT !.experiments = v1]
    /\ selected \in VecLists
    /\ fs = [p \in {Elsewhere} |-> None]
    /\ installed = {}
    /\ release = <<>>
    /\ log = <<>>
    /\ last = NoOp
    /\ prev = NoOp
    /\ before = fs
    /\ before2 = fs
    /\ beforeInst = installed
    /\ beforeInst2 = installed
    /\ runs = 0
    /\ uid = 0
    /\ id = "Ubuntu"
    /\ search_path = SearchPath

VecsEq ==
    /\ runs < MaxRuns
    /\ runs' = runs + 1
    /\ last' = [NoOp EXCEPT !.op = "vecs_eq",
                            !.ok = vecs_eq(cli_args.experiments, selected)]
    /\ prev' = last
    /\ UNCHANGED <<fs, installed, release, selected, log, before, before2,
                   beforeInst, beforeInst2, uid, id, cli_args, search_path>>

NextVecs == VecsEq

SpecVecs == InitVecs /\ [][NextVecs]_vars

\* number of occurrences of x in v
Occurrences(v, x) == Cardinality({i \in DOMAIN v : v[i] = x})

\* C34: vecs_eq(v1, v2) is true exactly when v1 and v2 hold the same
\* elements with the same multiplicities, in any order.
C34_VecsEqIsMultisetEquality ==
    last.op = "vecs_eq"
    => (last.ok <=> \A x \in VecElems :
                       Occurrences(cli_args.experiments, x)
                           = Occurrences(selected, x))

(***************************************************************************)
(* Properties of the enable and disable subcommands                        *)
(***************************************************************************)
UpdateCmd == <<"apt-get", "update">>

\* C19: in the enable subcommand no package is installed and no file is
\* substituted before the package lists have been updated with success; when
\* the update fails the run returns an error and touches no experiment.
C19_UpdateBeforeEnable ==
    (last.op = "main" /\ last.cmd = "enable")
    => /\ \A i \in DOMAIN log :
             (Mutating(log[i]) /\ log[i][2] # UpdateCmd)
             => /\ \E u \in 1..(i - 1) : log[u] = <<"run", UpdateCmd, NoPath>>
                /\ last.fault # <<"run", UpdateCmd>>
       /\ Cardinality({u \in DOMAIN log : log[u][2] = UpdateCmd}) <= 1
       /\ (last.fault = <<"run", UpdateCmd>>
             /\ \E u \in DOMAIN log : log[u][2] = UpdateCmd)
          => /\ ~last.ok /\ ~last.exit
             /\ log[Len(log)] = <<"run", UpdateCmd, NoPath>>
             /\ \A n \in DOMAIN selected : ~Reached(selected[n])
             /\ fs = before
             /\ installed = beforeInst

\* the update failed on a root Ubuntu host after the prompt was answered yes
C19_Witness ==
    /\ last.op = "main" /\ last.cmd = "enable" /\ ~last.ok
    /\ last.fault = <<"run", UpdateCmd>>
    /\ last.answer = "yes"
    /\ log[Len(log)] = <<"run", UpdateCmd, NoPath>>
    /\ Len(selected) = 4
    /\ fs[join(UsrBin, "date")] = File("orig", 493)

\* C20: without --yes, enable and disable show the prompt before any
\* mutating operation; when the answer is no or the prompt fails, the process
\* exits with a non-zero status and no package or file operation is
\* performed. With --yes no prompt is shown.
C20_ConfirmBeforeMutation ==
    last.op = "main"
    => /\ ~cli_args.yes
          => /\ \A i \in DOMAIN log :
                   Mutating(log[i])
                   => \E c \in 1..(i - 1) : log[c][1] = "prompt"
             /\ (last.answer \in {"no", "err"} /\ EventsOf("prompt") # {})
                => /\ last.exit /\ ~last.ok
                   /\ log[Len(log)][1] = "prompt"
                   /\ \A i \in DOMAIN log : ~Mutating(log[i])
                   /\ fs = before
                   /\ installed = beforeInst
             /\ (uid = 0 /\ (id = "Ubuntu" \/ last.ncc)
                   /\ last.fault # <<"run", <<"lsb_release", "-is">>>>)
                => Cardinality(EventsOf("prompt")) = 1
             /\ last.answer = "yes" => ~last.exit
       /\ cli_args.yes => EventsOf("prompt") = {} /\ ~last.exit

\* disable was declined on a host where the experiments are enabled
C20_Witness ==
    /\ last.op = "main" /\ last.cmd = "disable"
    /\ last.answer = "no" /\ last.exit
    /\ "rust-coreutils" \in installed
    /\ fs[join(UsrBin, "date")] = Link(UnifiedCoreutils)
    /\ BackupOf(fs, join(UsrBin, "date")) = File("orig", 493)

====
